---- MODULE Spec2Model ----
(***************************************************************************)
(* TrackFlow.  Orders microservice (src/orders/server.js): the order      *)
(* store, the HTTP handlers of the order lifecycle and their fan-out to    *)
(* the Invoices and Notifications services.  Invoices microservice         *)
(* (src/invoices/server.js): receive and generate.  Notifications          *)
(* microservice (src/notifications/server.js): POST /notify.               *)
(* formatCurrency of the invoice renderer (src/unnamed/part_019).          *)
(* Each service has its own specification over the same variables:         *)
(* isDevelopment is the mode of the service the specification is about,    *)
(* orders the store of the Orders service (in production the table both    *)
(* services read), inMemoryOrders the map of the Invoices service.         *)
(*                                                                         *)
(* A request occupies a slot; req[s].pc is the await at which its handler  *)
(* is suspended.  Every await of the source is one step of the model.      *)
(* Strings that the code slices (card number, security code) are tuples of *)
(* digits; money is an integer number of cents; null/undefined is Null; a  *)
(* missing or empty string field is "".  Request fields have the JSON      *)
(* types the frontend and the tests send (strings, numbers for money); the *)
(* status of POST /notify is a string or a number.                         *)
(* firstName stands for all the plain required fields, which the handlers  *)
(* treat alike.  clock is a logical clock: it advances with each request.  *)
(* In development mode the store is the in-memory map and never fails; in  *)
(* production mode each store call is a DynamoDB call that may reject.     *)
(* The fields pre and prev of a request and the outcomes kept in calls are *)
(* history: no handler reads them.  Spec handles one request at a time;    *)
(* ConcurrentSpec handles the writes of several clients to a stored order  *)
(* as their awaits settle.                                                 *)
(***************************************************************************)
EXTENDS Integers, Sequences, FiniteSets, TLC

(* ---- bounds ---- *)
MaxOrders == 2
MaxRequests == 3
NumSlots == 2

OrderIds == 1..MaxOrders
Slots == 1..NumSlots

(* null / undefined of the source; a record, so that it compares with orders *)
Null == [null |-> TRUE]

(* ---- request inputs ---- *)
LongCard == <<4, 1, 1, 1, 2, 3, 4, 5>>
ShortCard == <<9, 8, 7>>
Cvv == <<1, 2, 3>>

(* a price or shippingCost of a request body: a JSON number or numeric string
   (in cents), a non-empty string that is not numeric, or missing/empty *)
Num(c) == [kind |-> "number", cents |-> c]
Text == [kind |-> "text", cents |-> 0]
Missing == [kind |-> "missing", cents |-> 0]

BaseBody ==
  [firstName |-> "John", email |-> "john@x.com", cardNumber |-> LongCard,
   securityNumber |-> Cvv, status |-> "", price |-> Num(9999), shippingCost |-> Num(1000)]

Bodies ==
  { BaseBody,
    [BaseBody EXCEPT !.status = "shipped"],
    [BaseBody EXCEPT !.firstName = "Jane", !.email = "Jane@x.com", !.cardNumber = ShortCard,
                     !.status = "archived"],
    [BaseBody EXCEPT !.firstName = ""],
    [BaseBody EXCEPT !.email = "bad"],
    [BaseBody EXCEPT !.cardNumber = <<>>, !.securityNumber = <<>>] }

PatchStatuses == {"shipped", "delivered", "in-transit", ""}
FilterStatuses == {"shipped", "bogus"}
FilterEmails == {"john@x.com", "jane@x.com"}

(* ---- pure functions of the handlers ---- *)

(* body('status').isIn([...]) of PATCH /orders/:orderId/status *)
ValidStatuses ==
  {"received", "processing", "shipped", "delivered", "cancelled", "on-hold", "returned"}

(* express-validator isEmail, on the addresses the model uses *)
IsEmail(e) == e \in {"john@x.com", "Jane@x.com"}

(* orderValidationRules without the email rule *)
ValidationErrorsNoEmail(b) ==
  (IF b.firstName = "" THEN {"firstName"} ELSE {}) \cup
  (IF b.cardNumber = <<>> THEN {"payment.cardNumber"} ELSE {}) \cup
  (IF b.securityNumber = <<>> THEN {"payment.securityNumber"} ELSE {}) \cup
  (IF b.price.kind = "missing" THEN {"price"} ELSE {}) \cup
  (IF b.shippingCost.kind = "missing" THEN {"shippingCost"} ELSE {})

(* orderValidationRules: the fields whose rule fails *)
ValidationErrors(b) ==
  (IF b.firstName = "" THEN {"firstName"} ELSE {}) \cup
  (IF ~IsEmail(b.email) THEN {"email"} ELSE {}) \cup
  (IF b.cardNumber = <<>> THEN {"payment.cardNumber"} ELSE {}) \cup
  (IF b.securityNumber = <<>> THEN {"payment.securityNumber"} ELSE {}) \cup
  (IF b.price.kind = "missing" THEN {"price"} ELSE {}) \cup
  (IF b.shippingCost.kind = "missing" THEN {"shippingCost"} ELSE {})

(* the status rule of PATCH *)
StatusErrors(st) == IF st \in ValidStatuses THEN {} ELSE {"status"}

(* String.prototype.slice(-4) *)
Last4(c) == IF Len(c) <= 4 THEN c ELSE SubSeq(c, Len(c) - 3, Len(c))

(* parseFloat(x) || 0, in cents *)
ParseMoney(m) == IF m.kind = "number" THEN m.cents ELSE 0

(* Number.prototype.toFixed(2) of an amount given in 1/100 of a cent, in cents *)
ToFixed2(x) == (x + 50) \div 100

(* taxAmount.toFixed(2) cut off instead of rounded *)
TaxAmountTruncated(price) == (price * 8) \div 100

(* (productPrice * taxRate).toFixed(2), in cents *)
TaxAmount(price) == ToFixed2(price * 8)

(* (productPrice + shippingCost + taxAmount).toFixed(2), in cents *)
TotalCost(price, shippingCost) == ToFixed2(price * 100 + shippingCost * 100 + price * 8)

(* a || b on strings *)
OrElse(a, b) == IF a = "" THEN b ELSE a

(* the payment object POST /orders stores *)
PostPayment(b) ==
  [cardNumber |-> b.cardNumber, cardNumberLast4 |-> Last4(b.cardNumber),
   securityProvided |-> TRUE]

(* the payment object PUT /orders/:orderId stores *)
PutPayment(b) ==
  [cardNumber |-> b.cardNumber, securityNumber |-> b.securityNumber,
   cardNumberLast4 |-> Last4(b.cardNumber), securityProvided |-> TRUE]

(* orderItem whose status is taken from the body without the default *)
OrderItemNoDefault(id, b, now) ==
  [orderId |-> id, firstName |-> b.firstName, email |-> b.email,
   payment |-> PostPayment(b), price |-> ParseMoney(b.price), shippingCost |-> ParseMoney(b.shippingCost),
   tax |-> TaxAmount(ParseMoney(b.price)),
   totalCost |-> TotalCost(ParseMoney(b.price), ParseMoney(b.shippingCost)),
   status |-> b.status, createdAt |-> now, updatedAt |-> now]

(* orderItem of POST /orders *)
OrderItem(id, b, now) ==
  [orderId |-> id, firstName |-> b.firstName, email |-> b.email,
   payment |-> PostPayment(b), price |-> ParseMoney(b.price), shippingCost |-> ParseMoney(b.shippingCost),
   tax |-> TaxAmount(ParseMoney(b.price)),
   totalCost |-> TotalCost(ParseMoney(b.price), ParseMoney(b.shippingCost)),
   status |-> OrElse(b.status, "received"), createdAt |-> now, updatedAt |-> now]

(* updatedOrderData of PUT /orders/:orderId *)
UpdatedOrderData(b, existing, now) ==
  [firstName |-> b.firstName, email |-> b.email,
   payment |-> PutPayment(b), price |-> ParseMoney(b.price), shippingCost |-> ParseMoney(b.shippingCost),
   tax |-> TaxAmount(ParseMoney(b.price)),
   totalCost |-> TotalCost(ParseMoney(b.price), ParseMoney(b.shippingCost)),
   status |-> OrElse(b.status, OrElse(existing.status, "received")), updatedAt |-> now]

(* a status update that stamps the creation time too *)
StatusDataStamped(st, now) == [status |-> st, createdAt |-> now, updatedAt |-> now]

(* the object PATCH /orders/:orderId/status hands to update *)
StatusData(st, now) == [status |-> st, updatedAt |-> now]

(* an update that replaces the record by the supplied fields *)
MergeReplace(a, b) == b

(* { ...a, ...b } *)
Merge(a, b) ==
  [k \in (DOMAIN a) \cup (DOMAIN b) |-> IF k \in DOMAIN b THEN b[k] ELSE a[k]]

(* Object.values(inMemoryOrders).filter(order => order.status === status) *)
FilterByStatus(store, st) ==
  {store[i] : i \in {j \in OrderIds : store[j] # Null /\ store[j].status = st}}

(* a search that compares the addresses without regard to case *)
FilterByEmailIgnoreCase(store, e) ==
  LET ToLowerCase(x) == IF x = "Jane@x.com" THEN "jane@x.com" ELSE x IN
  {store[i] : i \in {j \in OrderIds :
                       store[j] # Null /\ ToLowerCase(store[j].email) = ToLowerCase(e)}}

(* Object.values(inMemoryOrders).filter(order => order.email === email) *)
FilterByEmail(store, e) ==
  {store[i] : i \in {j \in OrderIds : store[j] # Null /\ store[j].email = e}}

(* emailResult that ignores the error flag of the result *)
EmailResultAlwaysSent(result) ==
  [sent |-> TRUE, messageId |-> result.MessageId, error |-> ""]

(* emailResult built from the result of sendOrderNotification *)
EmailResult(result) ==
  [sent |-> ~result.error, messageId |-> result.MessageId,
   error |-> IF result.error THEN result.message ELSE ""]

(* invoiceResult built from the result of generateInvoice *)
InvoiceResult(outcome) ==
  IF outcome = "ok" THEN [generated |-> TRUE, error |-> ""]
  ELSE [generated |-> FALSE, error |-> outcome]

(* results of sendOrderNotification *)
DevResult == [error |-> FALSE, MessageId |-> "", message |-> ""]
ServiceResult == [error |-> FALSE, MessageId |-> "", message |-> ""]
SesResult(ok) ==
  IF ok THEN [error |-> FALSE, MessageId |-> "ses-id", message |-> ""]
  ELSE [error |-> TRUE, MessageId |-> "", message |-> "ses-error"]

(* ---- state ---- *)
VARIABLES isDevelopment, orders, nextId, clock, req, inMemoryOrders
vars == <<isDevelopment, orders, nextId, clock, req, inMemoryOrders>>

IdleReq ==
  [kind |-> "none", id |-> 0, body |-> Null, status |-> "", pc |-> "idle",
   existing |-> Null, data |-> Null, updated |-> Null, emailResult |-> Null,
   calls |-> <<>>, fault |-> FALSE, pre |-> Null, prev |-> Null, resp |-> Null]

(* history of a slot: the request answered just before the present one *)
Summary(r) ==
  IF r.pc = "idle" THEN Null
  ELSE [kind |-> r.kind, id |-> r.id, code |-> r.resp.code,
        status |-> IF r.kind = "POST" THEN r.body.status ELSE r.status]

Requests ==
  {[kind |-> "POST", id |-> 0, body |-> b, status |-> ""] : b \in Bodies} \cup
  {[kind |-> "PUT", id |-> i, body |-> b, status |-> ""] : i \in OrderIds, b \in Bodies} \cup
  {[kind |-> "PATCH", id |-> i, body |-> Null, status |-> st] : i \in OrderIds, st \in PatchStatuses} \cup
  {[kind |-> k, id |-> i, body |-> Null, status |-> ""] : k \in {"DELETE", "GET"}, i \in OrderIds} \cup
  {[kind |-> "FILTER", id |-> 0, body |-> Null, status |-> st] : st \in FilterStatuses} \cup
  {[kind |-> "SEARCH", id |-> 0, body |-> Null, status |-> e] : e \in FilterEmails}

Init ==
  /\ isDevelopment \in BOOLEAN
  /\ orders = [i \in OrderIds |-> Null]
  /\ nextId = 1
  /\ clock = 0
  /\ req = [s \in Slots |-> IdleReq]
  /\ inMemoryOrders = [i \in OrderIds |-> Null]

(* ---- steps on one request record ---- *)

(* res.status(code).json(body): the handler ends, its locals are gone *)
Respond(r, body) ==
  [r EXCEPT !.pc = "done", !.resp = body,
            !.existing = Null, !.data = Null, !.updated = Null, !.emailResult = Null]

(* the call is issued and the handler awaits it *)
Issue(r, call) == [r EXCEPT !.pc = call, !.calls = Append(@, <<call, "pending">>)]

(* the awaited call settles with an outcome *)
Settle(r, outcome) ==
  LET n == Len(r.calls)
  IN [r EXCEPT !.calls = [r.calls EXCEPT ![n] = <<r.calls[n][1], outcome>>]]

(* the catch block of a handler after a storage fault *)
Fail500(r) == Respond([r EXCEPT !.fault = TRUE], [code |-> 500])

(* a continuation in which a failed notification fails the update request *)
AfterNotificationFatal(r, result, threw) ==
  LET emailResult == IF threw THEN [sent |-> FALSE, messageId |-> "", error |-> "exception"]
                     ELSE EmailResult(result)
  IN CASE r.kind = "POST" ->
            Issue([r EXCEPT !.emailResult = emailResult], "generate")
       [] r.kind = "PUT" ->
            IF emailResult.sent THEN Respond(r, [code |-> 200, order |-> r.updated])
            ELSE Respond(r, [code |-> 500])
       [] OTHER ->
            IF emailResult.sent
            THEN Respond(r, [code |-> 200, order |-> r.updated, notification |-> emailResult])
            ELSE Respond(r, [code |-> 500])

(* what follows the notification in each handler *)
AfterNotification(r, result, threw) ==
  LET emailResult == IF threw THEN [sent |-> FALSE, messageId |-> "", error |-> "exception"]
                     ELSE EmailResult(result)
  IN CASE r.kind = "POST" ->
            Issue([r EXCEPT !.emailResult = emailResult], "generate")
       [] r.kind = "PUT" ->
            Respond(r, [code |-> 200, order |-> r.updated])
       [] OTHER ->
            Respond(r, [code |-> 200, order |-> r.updated, notification |-> emailResult])

(* sendOrderNotification(order, status) up to its first await *)
SendOrderNotification(r, order, dev) ==
  IF dev THEN AfterNotification(r, DevResult, FALSE)
  ELSE IF order = Null THEN AfterNotification(r, Null, TRUE)
  ELSE Issue(r, "notify")

(* a continuation in which PUT notifies whether or not the status changed *)
AfterUpdateAlwaysNotify(r, updatedOrder, dev) ==
  SendOrderNotification([r EXCEPT !.updated = updatedOrder], updatedOrder, dev)

(* what follows orderStorage.update in PUT and PATCH *)
AfterUpdate(r, updatedOrder, dev) ==
  LET r2 == [r EXCEPT !.updated = updatedOrder]
  IN IF r.kind = "PUT" /\ ~(r.data.status # "" /\ r.data.status # r.existing.status)
     THEN Respond(r2, [code |-> 200, order |-> updatedOrder])
     ELSE SendOrderNotification(r2, updatedOrder, dev)

(* ---- actions ---- *)

(* a request reaches the server; uuidv4 never runs out within the bound *)
Arrive(s, q) ==
  /\ req[s].pc \in {"idle", "done"}
  /\ clock < MaxRequests
  /\ clock' = clock + 1
  /\ q.kind = "POST" =>
       nextId + Cardinality({t \in Slots : req[t].kind = "POST" /\ req[t].pc = "start"}) <= MaxOrders
  /\ req' = [req EXCEPT ![s] =
       [IdleReq EXCEPT !.kind = q.kind, !.id = q.id, !.body = q.body, !.status = q.status,
                       !.pc = "start", !.pre = orders, !.prev = Summary(req[s])]]
  /\ UNCHANGED <<isDevelopment, inMemoryOrders, orders, nextId>>

(* POST /orders: validation, uuid, orderItem, up to await orderStorage.create *)
PostBegin(s) ==
  LET r == req[s] IN
  /\ r.kind = "POST" /\ r.pc = "start"
  /\ IF ValidationErrors(r.body) # {}
     THEN /\ req' = [req EXCEPT ![s] = Respond(r, [code |-> 400, errors |-> ValidationErrors(r.body)])]
          /\ UNCHANGED nextId
     ELSE /\ req' = [req EXCEPT ![s] = [r EXCEPT !.pc = "create", !.id = nextId,
                                                  !.data = OrderItem(nextId, r.body, clock)]]
          /\ nextId' = nextId + 1
  /\ UNCHANGED <<isDevelopment, inMemoryOrders, orders, clock>>

(* orderStorage.create settles; then the push to the Invoices service is issued *)
StoreCreate(s, ok) ==
  LET r == req[s] IN
  /\ r.pc = "create"
  /\ ok \/ ~isDevelopment
  /\ IF ok
     THEN /\ orders' = [orders EXCEPT ![r.id] = r.data]
          /\ req' = [req EXCEPT ![s] = Issue(r, "receive")]
     ELSE /\ req' = [req EXCEPT ![s] = Fail500(r)]
          /\ UNCHANGED orders
  /\ UNCHANGED <<isDevelopment, inMemoryOrders, nextId, clock>>

(* a handler that answers 201 as soon as the push to the Invoices service settles *)
ReceiveSettledRespond(s, outcome) ==
  LET r == req[s] IN
  /\ r.pc = "receive"
  /\ req' = [req EXCEPT ![s] =
       Respond(Settle(r, outcome),
               [code |-> 201, orderId |-> r.id, totalCost |-> r.data.totalCost,
                notification |-> EmailResult(DevResult), invoice |-> InvoiceResult("ok")])]
  /\ UNCHANGED <<isDevelopment, inMemoryOrders, orders, nextId, clock>>

(* axios.post(INVOICES/orders) settles: answer, error answer, or the 3000 ms timeout *)
ReceiveSettled(s, outcome) ==
  LET r == req[s] IN
  /\ r.pc = "receive"
  /\ req' = [req EXCEPT ![s] = SendOrderNotification(Settle(r, outcome), r.data, isDevelopment)]
  /\ UNCHANGED <<isDevelopment, inMemoryOrders, orders, nextId, clock>>

ReceiveReply(s, ok) == ReceiveSettled(s, IF ok THEN "ok" ELSE "unreachable")
ReceiveTimeout(s) == ReceiveSettled(s, "timeout")

(* a notification that is sent to the Notifications service once more after a failure *)
NotifyReplyRetry(s, ok) ==
  LET r == req[s]
      attempts == Cardinality({i \in DOMAIN r.calls : r.calls[i][1] = "notify"})
  IN
  /\ r.pc = "notify"
  /\ req' = [req EXCEPT ![s] =
       IF ok THEN AfterNotification(Settle(r, "ok"), ServiceResult, FALSE)
       ELSE IF attempts < 2 THEN Issue(Settle(r, "unreachable"), "notify")
       ELSE Issue(Settle(r, "unreachable"), "ses")]
  /\ UNCHANGED <<isDevelopment, inMemoryOrders, orders, nextId, clock>>

(* axios.post(NOTIFICATIONS/notify) settles; on failure the direct SES call is issued *)
NotifyReply(s, ok) ==
  LET r == req[s] IN
  /\ r.pc = "notify"
  /\ req' = [req EXCEPT ![s] =
       IF ok THEN AfterNotification(Settle(r, "ok"), ServiceResult, FALSE)
       ELSE Issue(Settle(r, "unreachable"), "ses")]
  /\ UNCHANGED <<isDevelopment, inMemoryOrders, orders, nextId, clock>>

(* ses.sendEmail settles *)
SesDone(s, ok) ==
  LET r == req[s] IN
  /\ r.pc = "ses"
  /\ req' = [req EXCEPT ![s] =
       AfterNotification(Settle(r, IF ok THEN "ok" ELSE "ses-error"), SesResult(ok), FALSE)]
  /\ UNCHANGED <<isDevelopment, inMemoryOrders, orders, nextId, clock>>

(* a failed generateInvoice that reaches the catch block of the handler *)
GenerateSettledFatal(s, outcome) ==
  LET r == req[s] IN
  /\ r.pc = "generate"
  /\ req' = [req EXCEPT ![s] =
       IF outcome = "ok"
       THEN Respond(Settle(r, outcome),
                    [code |-> 201, orderId |-> r.id, totalCost |-> r.data.totalCost,
                     notification |-> r.emailResult, invoice |-> InvoiceResult(outcome)])
       ELSE Respond(Settle(r, outcome), [code |-> 500])]
  /\ UNCHANGED <<isDevelopment, inMemoryOrders, orders, nextId, clock>>

(* generateInvoice settles: answer, error answer, or the 5000 ms timeout; then 201 *)
GenerateSettled(s, outcome) ==
  LET r == req[s] IN
  /\ r.pc = "generate"
  /\ req' = [req EXCEPT ![s] =
       Respond(Settle(r, outcome),
               [code |-> 201, orderId |-> r.id, totalCost |-> r.data.totalCost,
                notification |-> r.emailResult, invoice |-> InvoiceResult(outcome)])]
  /\ UNCHANGED <<isDevelopment, inMemoryOrders, orders, nextId, clock>>

GenerateReply(s, ok) == GenerateSettled(s, IF ok THEN "ok" ELSE "unreachable")
GenerateTimeout(s) == GenerateSettled(s, "timeout")

(* PUT /orders/:orderId: validation, up to await orderStorage.get *)
PutBegin(s) ==
  LET r == req[s] IN
  /\ r.kind = "PUT" /\ r.pc = "start"
  /\ req' = [req EXCEPT ![s] =
       IF ValidationErrors(r.body) # {}
       THEN Respond(r, [code |-> 400, errors |-> ValidationErrors(r.body)])
       ELSE [r EXCEPT !.pc = "get"]]
  /\ UNCHANGED <<isDevelopment, inMemoryOrders, orders, nextId, clock>>

(* PATCH /orders/:orderId/status: validation, up to await orderStorage.get *)
PatchBegin(s) ==
  LET r == req[s] IN
  /\ r.kind = "PATCH" /\ r.pc = "start"
  /\ req' = [req EXCEPT ![s] =
       IF StatusErrors(r.status) # {}
       THEN Respond(r, [code |-> 400, errors |-> StatusErrors(r.status)])
       ELSE [r EXCEPT !.pc = "get"]]
  /\ UNCHANGED <<isDevelopment, inMemoryOrders, orders, nextId, clock>>

(* the continuation in which PATCH does not check that the order exists *)
AfterGetNoCheck(r, existingOrder, now) ==
  IF existingOrder = Null /\ r.kind # "PATCH" THEN Respond(r, [code |-> 404])
  ELSE CASE r.kind = "GET" -> Respond(r, [code |-> 200, order |-> existingOrder])
         [] r.kind = "PUT" ->
              [r EXCEPT !.pc = "update", !.existing = existingOrder,
                        !.data = UpdatedOrderData(r.body, existingOrder, now)]
         [] r.kind = "PATCH" ->
              [r EXCEPT !.pc = "update", !.existing = existingOrder,
                        !.data = StatusData(r.status, now)]
         [] OTHER -> [r EXCEPT !.pc = "delete", !.existing = existingOrder]

(* the continuation of each handler after const existingOrder = await orderStorage.get *)
AfterGet(r, existingOrder, now) ==
  IF existingOrder = Null THEN Respond(r, [code |-> 404])
  ELSE CASE r.kind = "GET" -> Respond(r, [code |-> 200, order |-> existingOrder])
         [] r.kind = "PUT" ->
              [r EXCEPT !.pc = "update", !.existing = existingOrder,
                        !.data = UpdatedOrderData(r.body, existingOrder, now)]
         [] r.kind = "PATCH" ->
              [r EXCEPT !.pc = "update", !.existing = existingOrder,
                        !.data = StatusData(r.status, now)]
         [] OTHER -> [r EXCEPT !.pc = "delete", !.existing = existingOrder]

(* a read after which PUT writes to the table whether or not the order exists *)
StoreGetUpsert(s, ok) ==
  LET r == req[s] IN
  /\ \/ r.pc = "get"
     \/ r.pc = "start" /\ r.kind \in {"GET", "DELETE"}
  /\ ok \/ ~isDevelopment
  /\ req' = [req EXCEPT ![s] =
       IF ~ok THEN Fail500(r)
       ELSE IF r.kind = "PUT" /\ orders[r.id] = Null
       THEN [r EXCEPT !.pc = "uwrite", !.existing = [status |-> ""],
                      !.data = UpdatedOrderData(r.body, [status |-> ""], clock)]
       ELSE AfterGet(r, orders[r.id], clock)]
  /\ UNCHANGED <<isDevelopment, inMemoryOrders, orders, nextId, clock>>

(* orderStorage.get settles in GET, PUT, PATCH and DELETE *)
StoreGet(s, ok) ==
  LET r == req[s] IN
  /\ \/ r.pc = "get"
     \/ r.pc = "start" /\ r.kind \in {"GET", "DELETE"}
  /\ ok \/ ~isDevelopment
  /\ req' = [req EXCEPT ![s] = IF ok THEN AfterGet(r, orders[r.id], clock) ELSE Fail500(r)]
  /\ UNCHANGED <<isDevelopment, inMemoryOrders, orders, nextId, clock>>

(* orderStorage.update: the in-memory branch whole, or the existence check of the table branch *)
StoreUpdate(s, ok) ==
  LET r == req[s] IN
  /\ r.pc = "update"
  /\ ok \/ ~isDevelopment
  /\ IF ~ok THEN /\ req' = [req EXCEPT ![s] = Fail500(r)]
                 /\ UNCHANGED orders
     ELSE IF orders[r.id] = Null
     THEN /\ req' = [req EXCEPT ![s] = AfterUpdate(r, Null, isDevelopment)]
          /\ UNCHANGED orders
     ELSE IF isDevelopment
     THEN /\ orders' = [orders EXCEPT ![r.id] = Merge(orders[r.id], r.data)]
          /\ req' = [req EXCEPT ![s] = AfterUpdate(r, Merge(orders[r.id], r.data), isDevelopment)]
     ELSE /\ req' = [req EXCEPT ![s] = [r EXCEPT !.pc = "uwrite"]]
          /\ UNCHANGED orders
  /\ UNCHANGED <<isDevelopment, inMemoryOrders, nextId, clock>>

(* a table write that puts the supplied fields in place of the item *)
TableUpdatePut(item, id, data) == Merge([orderId |-> id], data)

(* docClient.update with SET expressions and ReturnValues ALL_NEW: an upsert on the key *)
TableUpdate(item, id, data) == Merge(IF item = Null THEN [orderId |-> id] ELSE item, data)

StoreUpdateWrite(s, ok) ==
  LET r == req[s] IN
  /\ r.pc = "uwrite"
  /\ IF ok
     THEN /\ orders' = [orders EXCEPT ![r.id] = TableUpdate(orders[r.id], r.id, r.data)]
          /\ req' = [req EXCEPT ![s] =
               AfterUpdate(r, TableUpdate(orders[r.id], r.id, r.data), isDevelopment)]
     ELSE /\ req' = [req EXCEPT ![s] = Fail500(r)]
          /\ UNCHANGED orders
  /\ UNCHANGED <<isDevelopment, inMemoryOrders, nextId, clock>>

(* a delete that reads the record back after removing it *)
StoreDeleteReadAfter(s, ok) ==
  LET r == req[s] IN
  /\ r.pc = "delete"
  /\ ok \/ ~isDevelopment
  /\ IF ok
     THEN /\ orders' = [orders EXCEPT ![r.id] = Null]
          /\ req' = [req EXCEPT ![s] = Respond(r, [code |-> 200, order |-> Null])]
     ELSE /\ req' = [req EXCEPT ![s] = Fail500(r)]
          /\ UNCHANGED orders
  /\ UNCHANGED <<isDevelopment, inMemoryOrders, nextId, clock>>

(* orderStorage.delete settles; DELETE answers 200 with what it returned *)
StoreDelete(s, ok) ==
  LET r == req[s] IN
  /\ r.pc = "delete"
  /\ ok \/ ~isDevelopment
  /\ IF ok
     THEN /\ orders' = [orders EXCEPT ![r.id] = Null]
          /\ req' = [req EXCEPT ![s] = Respond(r, [code |-> 200, order |-> orders[r.id]])]
     ELSE /\ req' = [req EXCEPT ![s] = Fail500(r)]
          /\ UNCHANGED orders
  /\ UNCHANGED <<isDevelopment, inMemoryOrders, nextId, clock>>

(* GET /orders/status/:status and GET /orders/customer/:email: the scan of
   orderStorage.filterByStatus or filterByEmail settles; the status field of the
   request holds the path parameter *)
StoreScan(s, ok) ==
  LET r == req[s] IN
  /\ r.kind \in {"FILTER", "SEARCH"} /\ r.pc = "start"
  /\ ok \/ ~isDevelopment
  /\ req' = [req EXCEPT ![s] =
       IF ~ok THEN Fail500(r)
       ELSE IF r.kind = "FILTER"
            THEN Respond(r, [code |-> 200, list |-> FilterByStatus(orders, r.status)])
            ELSE Respond(r, [code |-> 200, list |-> FilterByEmail(orders, r.status)])]
  /\ UNCHANGED <<isDevelopment, inMemoryOrders, orders, nextId, clock>>

(* ---- specifications ---- *)

(* the steps of the handler in slot s *)
Handler(s) ==
  \/ PostBegin(s)
  \/ PutBegin(s)
  \/ PatchBegin(s)
  \/ \E ok \in BOOLEAN : StoreCreate(s, ok)
  \/ \E ok \in BOOLEAN : StoreGet(s, ok)
  \/ \E ok \in BOOLEAN : StoreUpdate(s, ok)
  \/ \E ok \in BOOLEAN : StoreUpdateWrite(s, ok)
  \/ \E ok \in BOOLEAN : StoreDelete(s, ok)
  \/ \E ok \in BOOLEAN : StoreScan(s, ok)
  \/ \E ok \in BOOLEAN : ReceiveReply(s, ok)
  \/ ReceiveTimeout(s)
  \/ \E ok \in BOOLEAN : NotifyReply(s, ok)
  \/ \E ok \in BOOLEAN : SesDone(s, ok)
  \/ \E ok \in BOOLEAN : GenerateReply(s, ok)
  \/ GenerateTimeout(s)

(* one request at a time *)
Next ==
  \/ \E q \in Requests : Arrive(1, q)
  \/ Handler(1)

Spec == Init /\ [][Next]_vars

(* the requests of the clients that write to one order at the same time *)
ConcurrentRequests ==
  {[kind |-> "PUT", id |-> i, body |-> [BaseBody EXCEPT !.firstName = "Jane"], status |-> ""] :
     i \in OrderIds} \cup
  {[kind |-> "PATCH", id |-> i, body |-> Null, status |-> "shipped"] : i \in OrderIds} \cup
  {[kind |-> "DELETE", id |-> i, body |-> Null, status |-> ""] : i \in OrderIds}

(* the service after one POST /orders of BaseBody has been answered *)
ConcurrentInit ==
  /\ isDevelopment \in BOOLEAN
  /\ orders = [i \in OrderIds |-> IF i = 1 THEN OrderItem(1, BaseBody, 1) ELSE Null]
  /\ nextId = 2
  /\ clock = 1
  /\ req = [s \in Slots |-> IdleReq]
  /\ inMemoryOrders = [i \in OrderIds |-> Null]

(* the event loop runs a handler up to its next network call before it turns to
   another request: the in-memory store of development mode settles its promises
   without any, so no other handler runs between the steps it separates *)
RunToCompletion(s) ==
  \A t \in Slots \ {s} :
    ~(isDevelopment /\ req[t].pc \in {"start", "get", "update", "delete"})

(* the requests of several clients, handled as their network calls settle *)
ConcurrentNext ==
  \E s \in Slots :
    /\ RunToCompletion(s)
    /\ \/ \E q \in ConcurrentRequests : Arrive(s, q)
       \/ PutBegin(s)
       \/ PatchBegin(s)
       \/ \E ok \in BOOLEAN : StoreGet(s, ok)
       \/ \E ok \in BOOLEAN : StoreUpdate(s, ok)
       \/ \E ok \in BOOLEAN : StoreUpdateWrite(s, ok)
       \/ \E ok \in BOOLEAN : StoreDelete(s, ok)
       \/ \E ok \in BOOLEAN : NotifyReply(s, ok)
       \/ \E ok \in BOOLEAN : SesDone(s, ok)

ConcurrentSpec == ConcurrentInit /\ [][ConcurrentNext]_vars

(* the SDK calls and the client-side timeouts always settle; a collaborator may never answer *)
Progress(s) ==
  \/ PostBegin(s)
  \/ PutBegin(s)
  \/ PatchBegin(s)
  \/ \E ok \in BOOLEAN : StoreCreate(s, ok)
  \/ \E ok \in BOOLEAN : StoreGet(s, ok)
  \/ \E ok \in BOOLEAN : StoreUpdate(s, ok)
  \/ \E ok \in BOOLEAN : StoreUpdateWrite(s, ok)
  \/ \E ok \in BOOLEAN : StoreDelete(s, ok)
  \/ \E ok \in BOOLEAN : StoreScan(s, ok)
  \/ ReceiveTimeout(s)
  \/ \E ok \in BOOLEAN : SesDone(s, ok)
  \/ GenerateTimeout(s)

FairSpec == Init /\ [][Next]_vars /\ WF_vars(Progress(1))

(* ---- the create and update handlers on bodies that differ in price and shippingCost ---- *)

PriceBodies ==
  {[BaseBody EXCEPT !.price = m[1], !.shippingCost = m[2]] :
     m \in {<<Num(9999), Num(1000)>>, <<Num(1999), Num(0)>>, <<Num(0), Num(1000)>>,
            <<Num(-500), Num(1000)>>, <<Text, Num(1000)>>, <<Num(9999), Num(-100)>>,
            <<Num(9999), Text>>, <<Missing, Num(1000)>>}}

PriceRequests ==
  {[kind |-> "POST", id |-> 0, body |-> b, status |-> ""] : b \in PriceBodies} \cup
  {[kind |-> "PUT", id |-> i, body |-> b, status |-> ""] : i \in OrderIds, b \in PriceBodies}

PriceNext ==
  \/ \E q \in PriceRequests : Arrive(1, q)
  \/ PostBegin(1)
  \/ PutBegin(1)
  \/ \E ok \in BOOLEAN : StoreCreate(1, ok)
  \/ \E ok \in BOOLEAN : StoreGet(1, ok)
  \/ \E ok \in BOOLEAN : StoreUpdate(1, ok)
  \/ \E ok \in BOOLEAN : StoreUpdateWrite(1, ok)
  \/ \E ok \in BOOLEAN : ReceiveReply(1, ok)
  \/ ReceiveTimeout(1)
  \/ \E ok \in BOOLEAN : NotifyReply(1, ok)
  \/ \E ok \in BOOLEAN : SesDone(1, ok)
  \/ \E ok \in BOOLEAN : GenerateReply(1, ok)
  \/ GenerateTimeout(1)

PriceSpec == Init /\ [][PriceNext]_vars

(* ---- the exported orderStorage called directly ---- *)

(* the partial fields handed to update: what PATCH and PUT hand over, and objects
   without updatedAt *)
UpdateFields(now) ==
  {StatusData("shipped", now), UpdatedOrderData(BaseBody, [status |-> "delivered"], now),
   [updatedAt |-> now], [status |-> "shipped"], [firstName |-> "Jane"],
   [trackingNumber |-> "T1"]}

(* orderStorage.create(order) *)
CreateCall(ok) ==
  /\ clock < MaxRequests /\ nextId <= MaxOrders
  /\ ok \/ ~isDevelopment
  /\ clock' = clock + 1
  /\ nextId' = nextId + 1
  /\ orders' = IF ok THEN [orders EXCEPT ![nextId] = OrderItem(nextId, BaseBody, clock)]
               ELSE orders
  /\ req' = [req EXCEPT ![1] =
       [IdleReq EXCEPT !.kind = "create", !.id = nextId, !.pc = "done", !.pre = orders,
                       !.data = OrderItem(nextId, BaseBody, clock), !.fault = ~ok,
                       !.updated = IF ok THEN OrderItem(nextId, BaseBody, clock) ELSE Null]]
  /\ UNCHANGED <<isDevelopment, inMemoryOrders>>

(* what orderStorage.update(orderId, orderData) returns when no store call rejects *)
UpdateResult(store, dev, id, data) ==
  IF store[id] = Null THEN Null
  ELSE IF dev THEN Merge(store[id], data)
  ELSE TableUpdate(store[id], id, data)

(* orderStorage.update(orderId, orderData) *)
UpdateCall(id, data, ok) ==
  /\ clock < MaxRequests
  /\ ok \/ ~isDevelopment
  /\ clock' = clock + 1
  /\ orders' = IF ok /\ orders[id] # Null
               THEN [orders EXCEPT ![id] = UpdateResult(orders, isDevelopment, id, data)]
               ELSE orders
  /\ req' = [req EXCEPT ![1] =
       [IdleReq EXCEPT !.kind = "update", !.id = id, !.pc = "done", !.pre = orders,
                       !.data = data, !.fault = ~ok,
                       !.updated = IF ok THEN UpdateResult(orders, isDevelopment, id, data)
                                   ELSE Null]]
  /\ UNCHANGED <<isDevelopment, inMemoryOrders, nextId>>

StoreNext ==
  \/ \E ok \in BOOLEAN : CreateCall(ok)
  \/ \E id \in OrderIds, ok \in BOOLEAN : \E data \in UpdateFields(clock) : UpdateCall(id, data, ok)

StoreSpec == Init /\ [][StoreNext]_vars

(* ---- the Invoices service (src/invoices/server.js) ---- *)

(* the object storeOrderInMemory keeps for an order *)
StoredCopy(order) ==
  [orderId |-> order.orderId, firstName |-> order.firstName, email |-> order.email,
   payment |-> [cardNumber |-> order.payment.cardNumber,
                cardNumberLast4 |-> order.payment.cardNumberLast4],
   price |-> order.price, shippingCost |-> order.shippingCost, tax |-> order.tax,
   totalCost |-> order.totalCost, status |-> order.status]

(* storeOrderInMemory(order); an orderId of 0 stands for a missing orderId *)
StoreOrderInMemory(cache, dev, order) ==
  IF dev /\ order # Null /\ order.orderId # 0
  THEN [cache EXCEPT ![order.orderId] = StoredCopy(order)]
  ELSE cache

(* payloads of orders that the Orders service accepted *)
InvoiceBodies == {BaseBody, [BaseBody EXCEPT !.firstName = "Jane", !.cardNumber = ShortCard]}

(* what POST /orders of the Invoices service is sent: orderItem of the Orders
   service, an object without orderId, or no body *)
ReceivedOrders == {OrderItem(i, b, 0) : i \in 0..MaxOrders, b \in InvoiceBodies} \cup {Null}

(* the Orders service puts an order into the table the two services share in
   production (in development, into its own map, which this service never reads) *)
TableCreate(b) ==
  /\ nextId <= MaxOrders
  /\ orders' = [orders EXCEPT ![nextId] = OrderItem(nextId, b, 0)]
  /\ nextId' = nextId + 1
  /\ UNCHANGED <<isDevelopment, inMemoryOrders, clock, req>>

(* POST /orders of the Invoices service *)
ReceiveOrder(order) ==
  LET invalid == order = Null \/ order.orderId = 0 IN
  /\ req[1].pc \in {"idle", "done"}
  /\ clock < MaxRequests
  /\ clock' = clock + 1
  /\ inMemoryOrders' = IF invalid THEN inMemoryOrders
                       ELSE StoreOrderInMemory(inMemoryOrders, isDevelopment, order)
  /\ req' = [req EXCEPT ![1] =
       Respond([IdleReq EXCEPT !.kind = "RECEIVE", !.body = order, !.pre = inMemoryOrders],
               [code |-> IF invalid THEN 400 ELSE 200])]
  /\ UNCHANGED <<isDevelopment, orders, nextId>>

(* POST /invoices/generate/:orderId, up to await getOrderById *)
GenerateAndSendInvoice(id) ==
  /\ req[1].pc \in {"idle", "done"}
  /\ clock < MaxRequests
  /\ clock' = clock + 1
  /\ req' = [req EXCEPT ![1] =
       [IdleReq EXCEPT !.kind = "INVOICE", !.id = id, !.pc = "getOrder",
                       !.pre = inMemoryOrders]]
  /\ UNCHANGED <<isDevelopment, orders, nextId, inMemoryOrders>>

(* the catch block of generateAndSendInvoice; the endpoint answers 500 *)
InvoiceFailure(r, message) ==
  Respond(r, [code |-> 500, success |-> FALSE, message |-> message])

(* the result of a completed generateAndSendInvoice *)
InvoiceSuccess(r, dev, s3Url) ==
  Respond(r, [code |-> 200, success |-> TRUE, s3Url |-> s3Url, emailSent |-> ~dev])

(* a getOrderById that makes up an order for an id it does not find in memory *)
GetOrderByIdMock(ok) ==
  LET r == req[1]
      mock == [OrderItem(r.id, BaseBody, 0) EXCEPT !.firstName = "Test"]
      order == IF isDevelopment
               THEN IF inMemoryOrders[r.id] = Null THEN mock ELSE inMemoryOrders[r.id]
               ELSE orders[r.id]
  IN
  /\ r.kind = "INVOICE" /\ r.pc = "getOrder"
  /\ ok \/ ~isDevelopment
  /\ IF ~ok
     THEN /\ req' = [req EXCEPT ![1] = InvoiceFailure([r EXCEPT !.fault = TRUE], "error")]
          /\ UNCHANGED inMemoryOrders
     ELSE IF order = Null
     THEN /\ req' = [req EXCEPT ![1] = InvoiceFailure(r, "Order not found")]
          /\ UNCHANGED inMemoryOrders
     ELSE /\ inMemoryOrders' = StoreOrderInMemory(inMemoryOrders, isDevelopment, order)
          /\ req' = [req EXCEPT ![1] = Issue([r EXCEPT !.existing = order], "pdf")]
  /\ UNCHANGED <<isDevelopment, orders, nextId, clock>>

(* getOrderById settles; a found order is stored in memory and the PDF is started *)
GetOrderById(ok) ==
  LET r == req[1]
      order == IF isDevelopment THEN inMemoryOrders[r.id] ELSE orders[r.id]
  IN
  /\ r.kind = "INVOICE" /\ r.pc = "getOrder"
  /\ ok \/ ~isDevelopment
  /\ IF ~ok
     THEN /\ req' = [req EXCEPT ![1] = InvoiceFailure([r EXCEPT !.fault = TRUE], "error")]
          /\ UNCHANGED inMemoryOrders
     ELSE IF order = Null
     THEN /\ req' = [req EXCEPT ![1] = InvoiceFailure(r, "Order not found")]
          /\ UNCHANGED inMemoryOrders
     ELSE /\ inMemoryOrders' = StoreOrderInMemory(inMemoryOrders, isDevelopment, order)
          /\ req' = [req EXCEPT ![1] = Issue([r EXCEPT !.existing = order], "pdf")]
  /\ UNCHANGED <<isDevelopment, orders, nextId, clock>>

(* createInvoicePDF settles; in development the upload and the email are skipped *)
CreateInvoicePDF(ok) ==
  LET r == req[1] IN
  /\ r.kind = "INVOICE" /\ r.pc = "pdf"
  /\ req' = [req EXCEPT ![1] =
       IF ~ok THEN InvoiceFailure(Settle(r, "pdf-error"), "pdf-error")
       ELSE IF isDevelopment THEN InvoiceSuccess(Settle(r, "ok"), isDevelopment, "local")
       ELSE Issue(Settle(r, "ok"), "s3")]
  /\ UNCHANGED <<isDevelopment, orders, nextId, clock, inMemoryOrders>>

(* uploadPDFToS3 settles; a failed upload falls back to the local path *)
UploadPDFToS3(ok) ==
  LET r == req[1] IN
  /\ r.kind = "INVOICE" /\ r.pc = "s3"
  /\ req' = [req EXCEPT ![1] =
       Issue([Settle(r, IF ok THEN "ok" ELSE "s3-error") EXCEPT
                !.data = [s3Url |-> IF ok THEN "s3" ELSE "local"]], "mail")]
  /\ UNCHANGED <<isDevelopment, orders, nextId, clock, inMemoryOrders>>

(* sendEmailWithInvoice settles; a failure is logged *)
SendEmailWithInvoice(ok) ==
  LET r == req[1] IN
  /\ r.kind = "INVOICE" /\ r.pc = "mail"
  /\ req' = [req EXCEPT ![1] =
       InvoiceSuccess(Settle(r, IF ok THEN "ok" ELSE "ses-error"), isDevelopment, r.data.s3Url)]
  /\ UNCHANGED <<isDevelopment, orders, nextId, clock, inMemoryOrders>>

InvoiceNext ==
  \/ \E b \in InvoiceBodies : TableCreate(b)
  \/ \E order \in ReceivedOrders : ReceiveOrder(order)
  \/ \E id \in OrderIds : GenerateAndSendInvoice(id)
  \/ \E ok \in BOOLEAN : GetOrderById(ok)
  \/ \E ok \in BOOLEAN : CreateInvoicePDF(ok)
  \/ \E ok \in BOOLEAN : UploadPDFToS3(ok)
  \/ \E ok \in BOOLEAN : SendEmailWithInvoice(ok)

InvoiceSpec == Init /\ [][InvoiceNext]_vars

(* ---- the Notifications service (src/notifications/server.js) ---- *)

MaxEmailLen == 5

(* the characters of an address: a letter, the at sign, the dot, white space *)
EmailChars == {"a", "@", ".", " "}

(* the strings of at most n characters; the empty string is a missing field too *)
RECURSIVE Strings(_, _)
Strings(chars, n) ==
  IF n = 0 THEN {<<>>}
  ELSE LET shorter == Strings(chars, n - 1)
       IN shorter \cup {Append(t, c) : t \in {u \in shorter : Len(u) = n - 1}, c \in chars}

(* the bodies POST /notify is sent: status is the text of the JSON value and
   statusType its JavaScript type; a missing status is the empty string *)
NotifyBodies ==
  [orderId : {"", "o1"}, customerEmail : Strings(EmailChars, MaxEmailLen),
   status : {"", "shipped", "on-hold"}, statusType : {"string"}] \cup
  [orderId : {"", "o1"}, customerEmail : Strings(EmailChars, MaxEmailLen),
   status : {"42"}, statusType : {"number"}]

(* the keys of emailTemplates, which are the validStatuses of /notify too *)
EmailTemplates == {"received", "processing", "shipped", "delivered", "cancelled", "delayed"}

(* !validStatuses.includes(status) && !status.startsWith('custom-') throws a
   TypeError for a status that is no string: includes compares with ===, and only
   a string has the method startsWith *)
StatusThrows(b) == b.statusType # "string"

(* /^[^\s@]+@[^\s@]+\.[^\s@]+$/.test(e) *)
EmailRegex(e) ==
  \E i \in 2..Len(e) :
    /\ e[i] = "@"
    /\ \A k \in (1..Len(e)) \ {i} : e[k] \notin {"@", " "}
    /\ \E j \in (i + 2)..(Len(e) - 1) : e[j] = "."

(* the checks of /notify that skip the format of the address *)
NotifyErrorNoFormat(b) ==
  IF b.orderId = "" THEN "Missing required field: orderId"
  ELSE IF b.customerEmail = <<>> THEN "Missing required field: customerEmail"
  ELSE IF b.status = "" THEN "Missing required field: status"
  ELSE ""

(* the checks of /notify in their order: the error of the first that fails, or "" *)
NotifyError(b) ==
  IF b.orderId = "" THEN "Missing required field: orderId"
  ELSE IF b.customerEmail = <<>> THEN "Missing required field: customerEmail"
  ELSE IF b.status = "" THEN "Missing required field: status"
  ELSE IF ~EmailRegex(b.customerEmail) THEN "Invalid email format"
  ELSE ""

(* POST /notify up to the first await: the checks, then sendNotification, which
   in development returns at once and in production awaits ses.sendEmail. The
   look at the status is outside the try of the async handler: when it throws, the
   rejected promise is answered 500 by a framework that catches it and is left
   without any answer by one that does not *)
Notify(b) ==
  LET r == [IdleReq EXCEPT !.kind = "NOTIFY", !.body = b] IN
  /\ req[1].pc = "idle"
  /\ IF NotifyError(b) = "" /\ StatusThrows(b)
     THEN \E answered \in BOOLEAN :
            req' = [req EXCEPT ![1] =
              IF answered THEN Respond(r, [code |-> 500, error |-> "TypeError"])
              ELSE [r EXCEPT !.pc = "unanswered"]]
     ELSE req' = [req EXCEPT ![1] =
            IF NotifyError(b) # "" THEN Respond(r, [code |-> 400, error |-> NotifyError(b)])
            ELSE IF isDevelopment
            THEN Respond(r, [code |-> 200, success |-> TRUE, messageId |-> "dev-mode-no-email-sent"])
            ELSE Issue(r, "sendEmail")]
  /\ UNCHANGED <<isDevelopment, orders, nextId, clock, inMemoryOrders>>

(* ses.sendEmail settles; a rejected send is answered 200 with success false *)
SesSendEmail(ok) ==
  LET r == req[1] IN
  /\ r.kind = "NOTIFY" /\ r.pc = "sendEmail"
  /\ req' = [req EXCEPT ![1] =
       Respond(Settle(r, IF ok THEN "ok" ELSE "ses-error"),
               [code |-> 200, success |-> ok, messageId |-> IF ok THEN "ses-id" ELSE ""])]
  /\ UNCHANGED <<isDevelopment, orders, nextId, clock, inMemoryOrders>>

(* the response is on its way; the service waits for the next request *)
NotifyEnd ==
  /\ req[1].kind = "NOTIFY" /\ req[1].pc = "done"
  /\ req' = [req EXCEPT ![1] = IdleReq]
  /\ UNCHANGED <<isDevelopment, orders, nextId, clock, inMemoryOrders>>

NotifyNext ==
  \/ req[1].pc = "idle" /\ \E b \in NotifyBodies : Notify(b)
  \/ NotifyEnd
  \/ \E ok \in BOOLEAN : SesSendEmail(ok)

NotifySpec == Init /\ [][NotifyNext]_vars

(* ---- formatCurrency of the invoice renderer (src/unnamed/part_019) ---- *)

MaxTextLen == 3

DigitChars == <<"0", "1", "2", "3", "4", "5", "6", "7", "8", "9">>
Digits == {DigitChars[i] : i \in 1..10}
DigitValue(c) == CHOOSE v \in 0..9 : DigitChars[v + 1] = c

(* a finite number: sign, digits of the integer part without leading zeros, digits
   of the fraction *)
Decimal(neg, int, frac) == [kind |-> "number", neg |-> neg, int |-> int, frac |-> frac]

(* the values formatCurrency is given: numbers, NaN, the infinities, null,
   undefined, an object, and the strings of at most MaxTextLen characters *)
CurrencyValues ==
  {Decimal(n, i, f) : n \in BOOLEAN,
                      i \in {<<"0">>, <<"5">>, <<"1", "2", "3", "4">>, <<"9", "9", "9">>,
                             <<"9", "9", "9", "9", "9", "9", "9", "9", "9", "9">>,
                             <<"1", "2", "3", "4", "5", "6", "7", "8", "9", "0", "1">>},
                      f \in {<<>>, <<"5">>, <<"9", "9", "5">>, <<"0", "0", "4">>}} \cup
  {[kind |-> k] : k \in {"NaN", "Infinity", "-Infinity", "null", "undefined", "object"}} \cup
  {[kind |-> "string", chars |-> t] : t \in Strings({"1", "9", ".", "-", "a"}, MaxTextLen)}

(* the longest prefix of t made of digits *)
RECURSIVE LeadingDigits(_)
LeadingDigits(t) ==
  IF t = <<>> \/ Head(t) \notin Digits THEN <<>>
  ELSE <<Head(t)>> \o LeadingDigits(Tail(t))

(* digits without leading zeros *)
RECURSIVE Normal(_)
Normal(ds) ==
  IF ds = <<>> THEN <<"0">>
  ELSE IF Len(ds) > 1 /\ Head(ds) = "0" THEN Normal(Tail(ds))
  ELSE ds

(* parseFloat(t) of a string of digits and dots: NaN, or the number of its longest
   numeric prefix *)
ParseFloat(t) ==
  LET int == LeadingDigits(t)
      rest == SubSeq(t, Len(int) + 1, Len(t))
      frac == IF rest # <<>> /\ Head(rest) = "." THEN LeadingDigits(Tail(rest)) ELSE <<>>
  IN IF int = <<>> /\ frac = <<>> THEN [kind |-> "NaN"]
     ELSE Decimal(FALSE, Normal(int), frac)

(* value.replace(/[^0-9.]/g, '') *)
StripNonNumeric(t) == SelectSeq(t, LAMBDA c : c \in Digits \cup {"."})

(* num > 9999999999 *)
AboveCap(num) ==
  /\ ~num.neg
  /\ \/ Len(num.int) > 10
     \/ /\ Len(num.int) = 10
        /\ \A k \in 1..10 : num.int[k] = "9"
        /\ \E k \in 1..Len(num.frac) : num.frac[k] # "0"

(* the digits of the number one above the number with digits ds *)
RECURSIVE Increment(_)
Increment(ds) ==
  IF ds = <<>> THEN <<"1">>
  ELSE LET last == ds[Len(ds)]
           front == SubSeq(ds, 1, Len(ds) - 1)
       IN IF last = "9" THEN Increment(front) \o <<"0">>
          ELSE front \o <<DigitChars[DigitValue(last) + 2]>>

(* the digits of num in cents, rounded half up on the third decimal *)
Cents(num) ==
  LET f == num.frac \o <<"0", "0", "0">>
      ds == num.int \o <<f[1], f[2]>>
  IN IF DigitValue(f[3]) >= 5 THEN Increment(ds) ELSE ds

(* ds with a comma before every group of three digits counted from the right *)
RECURSIVE Grouped(_)
Grouped(ds) ==
  IF Len(ds) <= 3 THEN ds
  ELSE Grouped(SubSeq(ds, 1, Len(ds) - 3)) \o <<",">> \o SubSeq(ds, Len(ds) - 2, Len(ds))

(* num.toFixed(2).replace(/\B(?=(\d{3})+(?!\d))/g, ',') *)
FixedGrouped(num) ==
  LET c == Cents(num)
      int == SubSeq(c, 1, Len(c) - 2)
  IN (IF num.neg THEN <<"-">> ELSE <<>>) \o Grouped(Normal(int)) \o <<".">>
       \o SubSeq(c, Len(c) - 1, Len(c))

Zero == Decimal(FALSE, <<"0">>, <<>>)
Cap == Decimal(FALSE, <<"9", "9", "9", "9", "9", "9", "9", "9", "9", "9">>, <<>>)

(* formatCurrency(value), as the characters of the string it returns *)
FormatCurrency(value) ==
  LET num == CASE value.kind = "string" -> ParseFloat(StripNonNumeric(value.chars))
               [] value.kind \in {"number", "NaN", "Infinity", "-Infinity"} -> value
               [] OTHER -> Zero
  IN CASE num.kind = "NaN" -> <<"$", "0", ".", "0", "0">>
       [] num.kind = "Infinity" -> <<"$">> \o FixedGrouped(Cap)
       [] num.kind = "-Infinity" -> <<"$", "-Infinity">>
       [] OTHER -> <<"$">> \o FixedGrouped(IF AboveCap(num) THEN Cap ELSE num)

(* a call of formatCurrency by the renderer *)
FormatCall(value) ==
  /\ req' = [req EXCEPT ![1] =
       [IdleReq EXCEPT !.kind = "formatCurrency", !.body = value, !.pc = "done",
                       !.resp = [text |-> FormatCurrency(value)]]]
  /\ UNCHANGED <<isDevelopment, orders, nextId, clock, inMemoryOrders>>

CurrencyNext == \E value \in CurrencyValues : FormatCall(value)

CurrencySpec == Init /\ [][CurrencyNext]_vars

(* ---- properties ---- *)

Done(s, kind) == req[s].pc = "done" /\ req[s].kind = kind

(* the outcomes of the calls named call that request r issued *)
Outcomes(r, call) == {r.calls[i][2] : i \in {j \in DOMAIN r.calls : r.calls[j][1] = call}}

Failed == {"unreachable", "timeout", "ses-error"}

(* the payload passes the rules of POST and PUT, stated on the payload itself *)
WellFormed(b) ==
  /\ b.firstName # ""
  /\ b.email \in {"john@x.com", "Jane@x.com"}
  /\ b.cardNumber # <<>>
  /\ b.securityNumber # <<>>
  /\ b.price.kind # "missing"
  /\ b.shippingCost.kind # "missing"

(* what C1 states for each request apart from the notification field *)
C1_Common(s) ==
  LET r == req[s] IN
  /\ r.resp.code = 201
  /\ r.resp.orderId = r.id
  /\ orders[r.id] # Null /\ orders[r.id].orderId = r.id
  /\ (Outcomes(r, "generate") \cap Failed # {}) =>
       (r.resp.invoice.generated = FALSE /\ r.resp.invoice.error # "")

(* C1 as stated: a valid POST /orders whose store write succeeded answers 201 with
   the new orderId, the order is in the store, and every unreachable collaborator
   shows as invoice.generated = false / notification.sent = false with an error *)
C1_Orig ==
  \A s \in Slots :
    (Done(s, "POST") /\ WellFormed(req[s].body) /\ ~req[s].fault) =>
      /\ C1_Common(s)
      /\ (Outcomes(req[s], "notify") \cap Failed # {}) =>
           (req[s].resp.notification.sent = FALSE /\ req[s].resp.notification.error # "")

(* C1 amended: as C1, but notification.sent = false with an error is reported
   exactly when the Notifications call and the direct SES fallback both failed;
   an unreachable Notifications service whose SES fallback succeeds shows sent = true *)
C1_FanOutTolerated ==
  \A s \in Slots :
    (Done(s, "POST") /\ WellFormed(req[s].body) /\ ~req[s].fault) =>
      /\ C1_Common(s)
      /\ IF Outcomes(req[s], "notify") \cap Failed # {} /\ Outcomes(req[s], "ses") \cap Failed # {}
         THEN req[s].resp.notification.sent = FALSE /\ req[s].resp.notification.error # ""
         ELSE req[s].resp.notification.sent = TRUE /\ req[s].resp.notification.error = ""

(* all three collaborators and the fallback failed, the order was still created *)
C1_Witness ==
  \E s \in Slots :
    /\ Done(s, "POST") /\ req[s].resp.code = 201
    /\ Outcomes(req[s], "receive") = {"unreachable"}
    /\ Outcomes(req[s], "notify") = {"unreachable"}
    /\ Outcomes(req[s], "ses") = {"ses-error"}
    /\ Outcomes(req[s], "generate") = {"unreachable"}
    /\ req[s].resp.notification.sent = FALSE
    /\ req[s].resp.invoice.generated = FALSE

(* C2: a failed store create answers 500, stores nothing and issues no downstream
   call; a valid create request is answered with an error only after a store failure *)
C2_StoreFaultFatal ==
  \A s \in Slots :
    (Done(s, "POST") /\ WellFormed(req[s].body)) =>
      /\ req[s].fault =>
           (req[s].resp.code = 500 /\ req[s].calls = <<>> /\ orders = req[s].pre)
      /\ ~req[s].fault => req[s].resp.code = 201

(* a create whose store write failed while another order was already stored *)
C2_Witness ==
  \E s \in Slots :
    /\ Done(s, "POST") /\ req[s].fault /\ req[s].resp.code = 500
    /\ \E i \in OrderIds : orders[i] # Null

(* C3 as stated: once POST /orders has persisted the order it eventually answers 201 *)
C3_Orig ==
  \A s \in Slots :
    (req[s].kind = "POST" /\ req[s].pc \in {"receive", "notify", "ses", "generate"})
      ~> (req[s].pc = "done" /\ req[s].resp.code = 201)

(* C4 as stated: no stored record holds the full card number or the security code *)
C4_Orig ==
  \A i \in OrderIds :
    orders[i] # Null =>
      /\ "cardNumber" \notin DOMAIN orders[i].payment
      /\ "securityNumber" \notin DOMAIN orders[i].payment
      /\ Len(orders[i].payment.cardNumberLast4) <= 4
      /\ orders[i].payment.securityProvided \in BOOLEAN

(* C5: a POST or PUT whose payload fails validation answers 400 with the field
   errors, leaves the store as it was and issues no downstream call *)
C5_ValidationNoEffect ==
  \A s \in Slots :
    ((Done(s, "POST") \/ Done(s, "PUT")) /\ ~WellFormed(req[s].body)) =>
      /\ req[s].resp.code = 400
      /\ req[s].resp.errors # {}
      /\ orders = req[s].pre
      /\ req[s].calls = <<>>

(* a PUT with a malformed email on an order that exists *)
C5_Witness ==
  \E s \in Slots :
    /\ Done(s, "PUT") /\ req[s].body.email = "bad"
    /\ orders[req[s].id] # Null
    /\ req[s].resp.code = 400

(* a GET that directly follows the POST which answered 201 with the same id *)
GetAfterCreate(s) ==
  /\ Done(s, "GET") /\ ~req[s].fault
  /\ req[s].prev # Null
  /\ req[s].prev.kind = "POST" /\ req[s].prev.code = 201 /\ req[s].prev.id = req[s].id

(* C6 as stated: the GET after a 201 returns the order with status "received"
   whatever the request body carried *)
C6_Orig ==
  \A s \in Slots :
    GetAfterCreate(s) =>
      /\ req[s].resp.code = 200
      /\ req[s].resp.order.orderId = req[s].id
      /\ req[s].resp.order.status = "received"

(* C6 amended: the GET after a 201 returns the order under the returned id, with
   the status the request body carried and "received" when it carried none *)
C6_GetAfterCreate ==
  \A s \in Slots :
    GetAfterCreate(s) =>
      /\ req[s].resp.code = 200
      /\ req[s].resp.order.orderId = req[s].id
      /\ req[s].resp.order.status =
           (IF req[s].prev.status = "" THEN "received" ELSE req[s].prev.status)

(* the GET after a create whose body carried the status "shipped" *)
C6_Witness ==
  \E s \in Slots :
    /\ GetAfterCreate(s)
    /\ req[s].prev.status = "shipped"
    /\ req[s].resp.code = 200 /\ req[s].resp.order.status = "shipped"

(* C7: a PATCH answered 200 changed the status and updatedAt of its order and
   nothing else in the store *)
C7_PatchFrame ==
  \A s \in Slots :
    (Done(s, "PATCH") /\ req[s].resp.code = 200) =>
      LET r == req[s] IN
      /\ r.pre[r.id] # Null
      /\ DOMAIN orders[r.id] = DOMAIN r.pre[r.id]
      /\ \A k \in DOMAIN orders[r.id] \ {"status", "updatedAt"} :
           orders[r.id][k] = r.pre[r.id][k]
      /\ orders[r.id].status = r.status
      /\ \A j \in OrderIds \ {r.id} : orders[j] = r.pre[j]
      /\ r.resp.order = orders[r.id]

(* a status change on one of two stored orders *)
C7_Witness ==
  \E s \in Slots :
    /\ Done(s, "PATCH") /\ req[s].resp.code = 200
    /\ req[s].pre[req[s].id].status # req[s].status
    /\ \E j \in OrderIds \ {req[s].id} : orders[j] # Null

(* C8: a PATCH with a valid status on an id that is not stored answers 404,
   leaves the store as it was and sends no notification *)
C8_PatchMissing ==
  \A s \in Slots :
    (Done(s, "PATCH") /\ req[s].status \in ValidStatuses
       /\ req[s].pre[req[s].id] = Null /\ ~req[s].fault) =>
      /\ req[s].resp.code = 404
      /\ orders = req[s].pre
      /\ orders[req[s].id] = Null
      /\ req[s].calls = <<>>

(* the 404 of a PATCH while another order is stored *)
C8_Witness ==
  \E s \in Slots :
    /\ Done(s, "PATCH") /\ req[s].resp.code = 404
    /\ \E j \in OrderIds : orders[j] # Null

(* C9: DELETE on an id that is not stored answers 404 and leaves the store as it
   was; on a stored id it answers 200 with the record and removes only it, so a
   repeated delete answers 404 and changes nothing *)
C9_DeleteMissing ==
  \A s \in Slots :
    (Done(s, "DELETE") /\ ~req[s].fault) =>
      LET r == req[s] IN
      /\ IF r.pre[r.id] = Null
         THEN r.resp.code = 404 /\ orders = r.pre
         ELSE /\ r.resp.code = 200
              /\ r.resp.order = r.pre[r.id]
              /\ orders = [r.pre EXCEPT ![r.id] = Null]
      /\ (r.prev # Null /\ r.prev.kind = "DELETE" /\ r.prev.id = r.id /\ r.prev.code = 200) =>
           (r.resp.code = 404 /\ orders = r.pre)

(* the second of two deletes of the same order *)
C9_Witness ==
  \E s \in Slots :
    /\ Done(s, "DELETE") /\ req[s].resp.code = 404
    /\ req[s].prev # Null
    /\ req[s].prev.kind = "DELETE" /\ req[s].prev.id = req[s].id /\ req[s].prev.code = 200

(* the statuses the filter endpoint is specified to accept *)
AllowedStatuses == ValidStatuses \cup {"in-transit"}

(* C10 as stated: a filter on a status outside the allowed set answers 400 *)
C10_Orig ==
  \A s \in Slots :
    (Done(s, "FILTER") /\ req[s].status \notin AllowedStatuses) =>
      req[s].resp.code = 400

(* c (in cents) is x (in 1/100 of a cent) rounded to 2 decimals *)
RoundsTo(c, x) == 100 * c - 50 <= x /\ x < 100 * c + 50

(* POST answered 201 or PUT answered 200 *)
Accepted(s) ==
  \/ Done(s, "POST") /\ req[s].resp.code = 201
  \/ Done(s, "PUT") /\ req[s].resp.code = 200

(* C11: every stored order has tax = price * 0.08 and totalCost = price +
   shippingCost + price * 0.08, each rounded to 2 decimals, on the price and
   shippingCost of the accepted request (99.99 and 10.00 give 8.00 and 117.99);
   the totalCost of the 201 response is the stored one *)
C11_TotalCost ==
  /\ \A i \in OrderIds :
       orders[i] # Null =>
         /\ RoundsTo(orders[i].tax, 8 * orders[i].price)
         /\ RoundsTo(orders[i].totalCost, 108 * orders[i].price + 100 * orders[i].shippingCost)
         /\ (orders[i].price = 9999 /\ orders[i].shippingCost = 1000) =>
              (orders[i].tax = 800 /\ orders[i].totalCost = 11799)
  /\ \A s \in Slots :
       Accepted(s) =>
         LET r == req[s] IN
         /\ r.body.price.kind = "number" => orders[r.id].price = r.body.price.cents
         /\ r.body.shippingCost.kind = "number" =>
              orders[r.id].shippingCost = r.body.shippingCost.cents
         /\ r.kind = "POST" => r.resp.totalCost = orders[r.id].totalCost

(* a PUT that changed the price of an order to 99.99 with shipping 10.00 *)
C11_Witness ==
  \E s \in Slots :
    /\ Done(s, "PUT") /\ req[s].resp.code = 200
    /\ req[s].pre[req[s].id].totalCost # 11799
    /\ orders[req[s].id].tax = 800 /\ orders[req[s].id].totalCost = 11799

(* the price is not a number greater than 0, or the shippingCost not a number >= 0 *)
BadMoney(b) ==
  \/ ~(b.price.kind = "number" /\ b.price.cents > 0)
  \/ ~(b.shippingCost.kind = "number" /\ b.shippingCost.cents >= 0)

(* C12 as stated: a POST whose price is not greater than 0 or whose shippingCost is
   negative or not numeric answers 400 and stores nothing, so every stored order
   has price > 0 and shippingCost >= 0 *)
C12_Orig ==
  /\ \A s \in Slots :
       (Done(s, "POST") /\ BadMoney(req[s].body)) =>
         (req[s].resp.code = 400 /\ orders = req[s].pre)
  /\ \A i \in OrderIds :
       orders[i] # Null => (orders[i].price > 0 /\ orders[i].shippingCost >= 0)

(* C13: a PUT or PATCH on a stored order whose store update succeeded answers 200
   with the updated order whatever became of the notification (service
   unreachable, mail provider error), and the update stays in the store *)
C13_UpdateOutlivesNotification ==
  \A s \in Slots :
    LET r == req[s] IN
    (r.kind \in {"PUT", "PATCH"} /\ r.pre[r.id] # Null /\ orders[r.id] # r.pre[r.id]) =>
      /\ r.pc \in {"notify", "ses", "done"}
      /\ orders[r.id].updatedAt # r.pre[r.id].updatedAt
      /\ r.kind = "PATCH" => orders[r.id].status = r.status
      /\ r.pc \in {"notify", "ses"} => orders[r.id] = r.updated
      /\ r.pc = "done" => (r.resp.code = 200 /\ r.resp.order = orders[r.id])

(* a PUT that changed the status and a PATCH, each answered after the Notifications
   service was unreachable and the mail provider refused the message *)
C13_Witness ==
  \E s \in Slots :
    /\ req[s].kind \in {"PUT", "PATCH"} /\ req[s].pc = "done" /\ req[s].resp.code = 200
    /\ "unreachable" \in Outcomes(req[s], "notify")
    /\ "ses-error" \in Outcomes(req[s], "ses")
    /\ orders[req[s].id] # req[s].pre[req[s].id]

(* C14: a PUT with a valid payload on an id that is not stored answers 404,
   creates no record for the id, leaves the store as it was and sends no
   notification *)
C14_PutMissing ==
  \A s \in Slots :
    (Done(s, "PUT") /\ WellFormed(req[s].body)
       /\ req[s].pre[req[s].id] = Null /\ ~req[s].fault) =>
      /\ req[s].resp.code = 404
      /\ orders[req[s].id] = Null
      /\ orders = req[s].pre
      /\ req[s].calls = <<>>

(* the 404 of a valid PUT while another order is stored *)
C14_Witness ==
  \E s \in Slots :
    /\ Done(s, "PUT") /\ req[s].resp.code = 404
    /\ WellFormed(req[s].body)
    /\ \E j \in OrderIds : orders[j] # Null

(* C15 as stated: PATCH accepts a status exactly when it is one of received,
   processing, shipped, in-transit, delivered, cancelled, on-hold, returned; any
   other status is answered 400, leaves the store as it was and sends no
   notification *)
C15_Orig ==
  \A s \in Slots :
    Done(s, "PATCH") =>
      IF req[s].status \in AllowedStatuses
      THEN req[s].resp.code # 400
      ELSE /\ req[s].resp.code = 400
           /\ orders = req[s].pre
           /\ req[s].calls = <<>>

(* what C16 states apart from updatedAt: update on a stored id returns the record
   now stored, in which exactly the supplied fields have their new values and every
   other field its previous value; on an id that is not stored it returns
   not-found and leaves the store as it was; other records are never touched *)
C16_Common(s) ==
  LET r == req[s] IN
  /\ \A j \in OrderIds \ {r.id} : orders[j] = r.pre[j]
  /\ IF r.pre[r.id] = Null
     THEN r.updated = Null /\ orders = r.pre
     ELSE /\ r.updated = orders[r.id]
          /\ DOMAIN orders[r.id] = (DOMAIN r.pre[r.id]) \cup (DOMAIN r.data)
          /\ \A k \in DOMAIN r.data : orders[r.id][k] = r.data[k]
          /\ \A k \in (DOMAIN r.pre[r.id]) \ (DOMAIN r.data) : orders[r.id][k] = r.pre[r.id][k]

(* C16 as stated: the merge of C16_Common, and updatedAt is refreshed by every
   update of a stored id *)
C16_Orig ==
  \A s \in Slots :
    (Done(s, "update") /\ ~req[s].fault) =>
      /\ C16_Common(s)
      /\ req[s].pre[req[s].id] # Null =>
           orders[req[s].id].updatedAt # req[s].pre[req[s].id].updatedAt

(* C16 amended: the merge of C16_Common in both backends; updatedAt is a field like
   any other, refreshed when the caller supplies it and kept when not *)
C16_UpdateMerges ==
  \A s \in Slots :
    (Done(s, "update") /\ ~req[s].fault) =>
      /\ C16_Common(s)
      /\ req[s].pre[req[s].id] # Null =>
           IF "updatedAt" \in DOMAIN req[s].data
           THEN orders[req[s].id].updatedAt # req[s].pre[req[s].id].updatedAt
           ELSE orders[req[s].id].updatedAt = req[s].pre[req[s].id].updatedAt

(* an update of the status alone on a record of the managed table *)
C16_Witness ==
  \E s \in Slots :
    /\ Done(s, "update") /\ ~req[s].fault /\ ~isDevelopment
    /\ req[s].pre[req[s].id] # Null
    /\ DOMAIN req[s].data = {"status"}
    /\ orders[req[s].id].status # req[s].pre[req[s].id].status
    /\ orders[req[s].id].firstName = "John"

(* C17 as stated: a generate that found the order and rendered the PDF while the
   email send failed returns success with the URL of the PDF and emailSent = false;
   emailSent is true only if the mailer accepted the message *)
C17_Orig ==
  \A s \in Slots :
    Done(s, "INVOICE") =>
      LET r == req[s] IN
      /\ ("ok" \in Outcomes(r, "pdf") /\ "ses-error" \in Outcomes(r, "mail")) =>
           (r.resp.success /\ r.resp.s3Url # "" /\ r.resp.emailSent = FALSE)
      /\ (r.resp.success /\ r.resp.emailSent) => "ok" \in Outcomes(r, "mail")

(* C18: a generate for an id that is in neither the memory of the service nor the
   shared table returns success = false, renders and uploads no PDF, sends no
   email and adds no order to the memory of the service *)
C18_GenerateMissing ==
  \A s \in Slots :
    (Done(s, "INVOICE") /\ req[s].pre[req[s].id] = Null /\ orders[req[s].id] = Null) =>
      /\ req[s].resp.success = FALSE
      /\ req[s].calls = <<>>
      /\ inMemoryOrders = req[s].pre

(* the failure for an unknown id while another order is known to the service *)
C18_Witness ==
  \E s \in Slots :
    /\ Done(s, "INVOICE") /\ ~req[s].fault
    /\ req[s].pre[req[s].id] = Null /\ orders[req[s].id] = Null
    /\ req[s].resp.success = FALSE
    /\ \E j \in OrderIds : IF isDevelopment THEN inMemoryOrders[j] # Null ELSE orders[j] # Null

(* the address has the shape local@domain: one at sign with text on both sides and
   no white space *)
LocalAtDomain(e) ==
  \E i \in 1..Len(e) :
    /\ e[i] = "@" /\ 1 < i /\ i < Len(e)
    /\ \A k \in (1..Len(e)) \ {i} : e[k] \notin {"@", " "}

(* C19: a POST /notify without orderId, customerEmail or status, or whose
   customerEmail does not have the shape local@domain, is answered 400 and the
   Mailer is never called for it *)
C19_NotifyRejects ==
  \A s \in Slots :
    LET r == req[s] IN
    (r.kind = "NOTIFY" /\ (\/ r.body.orderId = ""
                           \/ r.body.customerEmail = <<>>
                           \/ r.body.status = ""
                           \/ ~LocalAtDomain(r.body.customerEmail))) =>
      /\ r.pc = "done"
      /\ r.resp.code = 400
      /\ r.calls = <<>>

(* in production, a request with orderId and status whose address starts with
   the at sign is answered 400 *)
C19_Witness ==
  \E s \in Slots :
    /\ req[s].kind = "NOTIFY" /\ req[s].pc = "done" /\ ~isDevelopment
    /\ req[s].body.orderId # "" /\ req[s].body.status # ""
    /\ req[s].body.customerEmail = <<"@", "a", ".", "a">>
    /\ req[s].resp.code = 400 /\ req[s].calls = <<>>

(* t is "$", the digits of an amount of at most ten digits in groups of three
   separated by commas, a dot and two decimals: no sign *)
WellFormatted(t) ==
  LET n == Len(t) IN
  /\ 5 <= n /\ n <= 17
  /\ t[1] = "$" /\ t[2] \in Digits
  /\ t[n - 2] = "." /\ t[n - 1] \in Digits /\ t[n] \in Digits
  /\ \A k \in 2..(n - 3) :
       IF (n - 3 - k) % 4 = 3 THEN t[k] = "," ELSE t[k] \in Digits

(* the characters are a number as written in JSON or sent by a form: an optional
   minus sign, digits, at most one dot, a digit on each side of the dot *)
NumericString(t) ==
  LET u == IF t # <<>> /\ Head(t) = "-" THEN Tail(t) ELSE t
      int == LeadingDigits(u)
      rest == SubSeq(u, Len(int) + 1, Len(u))
  IN /\ int # <<>>
     /\ \/ rest = <<>>
        \/ /\ Head(rest) = "." /\ Len(rest) > 1
           /\ LeadingDigits(Tail(rest)) = Tail(rest)

(* C20 as stated: formatCurrency returns, for every input, a non-negative amount
   of at most 9,999,999,999 with exactly 2 decimals and thousands separators, and
   "$0.00" for an input that is not a valid number *)
C20_Orig ==
  \A s \in Slots :
    Done(s, "formatCurrency") =>
      LET value == req[s].body IN
      /\ WellFormatted(req[s].resp.text)
      /\ (\/ value.kind \in {"NaN", "null", "undefined", "object"}
          \/ value.kind = "string" /\ ~NumericString(value.chars)) =>
           req[s].resp.text = <<"$", "0", ".", "0", "0">>

(* C21 as stated: the copy of an order that the Invoices service keeps after
   receive never holds the security code, and of the card number it holds the
   last 4 digits only *)
C21_Orig ==
  \A i \in OrderIds :
    inMemoryOrders[i] # Null =>
      /\ "securityNumber" \notin DOMAIN inMemoryOrders[i].payment
      /\ "cardNumber" \in DOMAIN inMemoryOrders[i].payment =>
           Len(inMemoryOrders[i].payment.cardNumber) <= 4

(* the downstream calls request r has issued *)
CallNames(r) == {r.calls[i][1] : i \in DOMAIN r.calls}

(* C22: a successful PUT issues the Notifications call exactly when the status now
   stored differs from the status stored before the request (in development mode
   sendOrderNotification returns before any call), and a PUT never issues an
   Invoices receive or generate call *)
C22_PutNotifiesOnStatusChange ==
  \A s \in Slots :
    LET r == req[s] IN
    r.kind = "PUT" =>
      /\ CallNames(r) \subseteq {"notify", "ses"}
      /\ r.pc \in {"notify", "ses"} => orders[r.id].status # r.pre[r.id].status
      /\ (r.pc = "done" /\ r.resp.code = 200) =>
           ("notify" \in CallNames(r) <=>
              (~isDevelopment /\ orders[r.id].status # r.pre[r.id].status))

(* in production, one PUT that changed the status and notified *)
C22_Witness ==
  \E s \in Slots :
    /\ Done(s, "PUT") /\ req[s].resp.code = 200 /\ ~isDevelopment
    /\ orders[req[s].id].status = "shipped"
    /\ req[s].pre[req[s].id].status = "received"
    /\ "notify" \in CallNames(req[s])

(* C23 as stated: the status of every stored order is one of received,
   processing, shipped, in-transit, delivered, cancelled, on-hold, returned *)
C23_Orig ==
  \A i \in OrderIds : orders[i] # Null => orders[i].status \in AllowedStatuses

(* the number of calls named call that request r has issued *)
Attempts(r, call) == Cardinality({i \in DOMAIN r.calls : r.calls[i][1] = call})

(* C24 as stated: a request makes at most one attempt for each downstream step,
   and a notification is never attempted through a second channel *)
C24_Orig ==
  \A s \in Slots :
    /\ \A call \in {"receive", "generate", "notify"} : Attempts(req[s], call) <= 1
    /\ Attempts(req[s], "ses") = 0

(* C24 amended: at most one attempt for the Invoices receive call, the Invoices
   generate call and the call of the Notifications service; a failed call of the
   Notifications service is followed by one direct send through the mail
   provider, made only then and never repeated *)
C24_OneAttempt ==
  \A s \in Slots :
    LET r == req[s] IN
    /\ \A call \in {"receive", "generate", "notify", "ses"} : Attempts(r, call) <= 1
    /\ Attempts(r, "ses") = 1 <=> "unreachable" \in Outcomes(r, "notify")

(* a PATCH whose Notifications call failed and whose direct send failed too *)
C24_Witness ==
  \E s \in Slots :
    /\ Done(s, "PATCH") /\ req[s].resp.code = 200
    /\ req[s].calls = <<(<<"notify", "unreachable">>), (<<"ses", "ses-error">>)>>

(* the position of the call named call among the calls of request r, 0 if none *)
CallIndex(r, call) ==
  IF call \in CallNames(r) THEN CHOOSE i \in DOMAIN r.calls : r.calls[i][1] = call ELSE 0

(* C25: within one POST /orders no downstream call is issued before the store
   write has completed, the generate call is issued only after the receive call
   has settled, and the 201 is sent only after the receive call, the notification
   and the generate call have each completed or failed *)
C25_PostOrder ==
  \A s \in Slots :
    LET r == req[s] IN
    r.kind = "POST" =>
      /\ r.pc \in {"start", "create"} => r.calls = <<>>
      /\ r.calls # <<>> =>
           (orders[r.id] # Null /\ orders[r.id] # r.pre[r.id] /\ r.calls[1][1] = "receive")
      /\ "generate" \in CallNames(r) =>
           /\ 0 < CallIndex(r, "receive") /\ CallIndex(r, "receive") < CallIndex(r, "generate")
           /\ r.calls[CallIndex(r, "receive")][2] # "pending"
           /\ CallIndex(r, "generate") = Len(r.calls)
      /\ (r.pc = "done" /\ r.resp.code = 201) =>
           /\ {"receive", "generate"} \subseteq CallNames(r)
           /\ ~isDevelopment => "notify" \in CallNames(r)
           /\ \A i \in DOMAIN r.calls : r.calls[i][2] # "pending"

(* a 201 in production after the receive call timed out and the two others answered *)
C25_Witness ==
  \E s \in Slots :
    /\ Done(s, "POST") /\ req[s].resp.code = 201
    /\ req[s].calls = <<(<<"receive", "timeout">>), (<<"notify", "ok">>), (<<"generate", "ok">>)>>

(* C26: the status filter answers exactly the stored orders whose status equals the
   parameter, and the email search exactly the stored orders whose email equals the
   parameter character for character; no stored match is missing, nothing else and
   no deleted order is in the answer *)
C26_FilterExact ==
  \A s \in Slots :
    LET r == req[s] IN
    (r.pc = "done" /\ r.kind \in {"FILTER", "SEARCH"} /\ r.resp.code = 200) =>
      /\ \A i \in OrderIds :
           (orders[i] # Null /\ (IF r.kind = "FILTER" THEN orders[i].status ELSE orders[i].email) = r.status)
             => orders[i] \in r.resp.list
      /\ \A o \in r.resp.list :
           /\ (IF r.kind = "FILTER" THEN o.status ELSE o.email) = r.status
           /\ \E i \in OrderIds : orders[i] = o

(* a search for jane@x.com answers nothing while an order of Jane@x.com is stored,
   and a search for john@x.com has left out that order *)
C26_Witness ==
  \E s \in Slots :
    /\ Done(s, "SEARCH") /\ req[s].resp.code = 200
    /\ req[s].status = "jane@x.com" /\ req[s].resp.list = {}
    /\ \E i \in OrderIds : orders[i] # Null /\ orders[i].email = "Jane@x.com"

(* C27 as stated: a POST /notify with a valid orderId and customerEmail and any
   non-empty status that has no canned template is not rejected: it is processed
   with the generic template and answered without a 4xx or 5xx *)
C27_Orig ==
  LET r == req[1] IN
  (/\ r.kind = "NOTIFY" /\ r.pc # "sendEmail"
   /\ r.body.orderId # "" /\ EmailRegex(r.body.customerEmail)
   /\ r.body.status # "" /\ r.body.status \notin EmailTemplates) =>
    (r.pc = "done" /\ r.resp.code = 200)

(* C30: the identity of an order is immutable: no PUT and no PATCH, in any
   sequence, changes the orderId or the createdAt of a stored order, and every
   record is filed under the key that equals its own orderId *)
C30_Identity ==
  [][\A i \in OrderIds :
       /\ orders'[i] # Null => orders'[i].orderId = i
       /\ (orders[i] # Null /\ orders'[i] # Null) =>
            /\ orders'[i].orderId = orders[i].orderId
            /\ orders'[i].createdAt = orders[i].createdAt]_vars

(* a PUT has rewritten the name of an order that a PATCH had shipped before, later
   than the order was created *)
C30_Witness ==
  \E s \in Slots :
    LET r == req[s] IN
    /\ Done(s, "PUT") /\ r.resp.code = 200
    /\ r.pre[r.id].firstName # orders[r.id].firstName
    /\ r.pre[r.id].createdAt < r.pre[r.id].updatedAt
    /\ r.pre[r.id].updatedAt < orders[r.id].updatedAt
    /\ orders[r.id].createdAt = r.pre[r.id].createdAt /\ orders[r.id].orderId = r.id

(* the record has every field of an order *)
Complete(o) == o # Null /\ DOMAIN o = DOMAIN OrderItem(0, BaseBody, 0)

(* C28 as stated: when a PATCH or PUT and a DELETE of the same existing order run
   at the same time, in every interleaving the PATCH or PUT answers 404 or answers
   200 with a complete order that is not null, and afterwards the store holds no
   record for the id or a complete one: the late write never creates a deleted
   order again as a partial record *)
C28_Orig ==
  /\ \A s \in Slots :
       LET r == req[s] IN
       (r.pc = "done" /\ r.kind \in {"PUT", "PATCH"} /\ r.resp.code = 200) =>
         Complete(r.resp.order)
  /\ \A i \in OrderIds : orders[i] = Null \/ Complete(orders[i])

(* C29 as stated: a PUT whose body has no status never changes the stored status:
   when it runs at the same time as a PATCH of the same order, in every
   interleaving the stored status is in the end the one the PATCH set *)
C29_Orig ==
  \A s, t \in Slots :
    (/\ Done(s, "PUT") /\ req[s].resp.code = 200 /\ req[s].body.status = ""
     /\ Done(t, "PATCH") /\ req[t].resp.code = 200 /\ req[t].id = req[s].id
     /\ orders[req[s].id] # Null) =>
      orders[req[s].id].status = req[t].status

====
